---- MODULE Spec2Model ----
(***************************************************************************)
(* Model of nextava-widget.js: the CSV tokenizer (parseCSV), the freshness *)
(* cache (getData), the record resolver (findClinic) and the orchestrator  *)
(* (init).  Text is a sequence of one-character strings; a cell (field)    *)
(* is such a sequence too, a row is a sequence of cells and a table a      *)
(* sequence of rows.                                                       *)
(***************************************************************************)
EXTENDS Integers, Sequences, FiniteSets, TLC

VARIABLES
    \* ---- parseCSV, one loop iteration per step ----
    text,          \* the argument of parseCSV
    i,             \* loop index (1-based; the source's i + 1)
    lines,         \* rows emitted so far
    currentLine,   \* fields pushed for the row being read
    currentField,  \* the pending field
    inQuotes,      \* inside an open double quote
    scanPc,        \* "scan" while in the for loop, "done" after return
    table,         \* the table that was serialized into text (round trip)
    term,          \* the line terminator used by the serialization
    \* ---- findClinic ----
    rows,          \* the table handed to findClinic
    clinicId,      \* the data-clinic-id attribute of the script tag
    clinic,        \* what findClinic returned
    findPc,        \* "call" before findClinic ran, "done" after
    \* ---- getData and init, one flow per widget instance ----
    now,           \* Date.now(), milliseconds
    ticks,         \* how often the clock advanced
    store,         \* localStorage item under CONFIG.cacheKey
    storeMode,     \* "ok", "full" (setItem throws) or "denied" (every access throws)
    pc,            \* where each flow stands
    body,          \* the response text a flow received
    result,        \* what the getData() promise settled with
    fetches,       \* fetch() calls issued by each flow
    signals,       \* showLoading / render / showError calls of each flow, in order
    \* ---- timeAgo ----
    timestampString, \* the argument of timeAgo
    readNow,       \* the clock at new Date(), the future check
    diffNow,       \* the clock at Date.now(), the day difference
    formatted,     \* what timeAgo returned
    timePc         \* "call" before timeAgo ran, "done" after

csvVars == <<text, i, lines, currentLine, currentField, inQuotes, scanPc, table, term>>

findVars == <<rows, clinicId, clinic, findPc>>

cacheVars == <<now, ticks, store, storeMode, pc, body, result, fetches, signals>>

timeVars == <<timestampString, readNow, diffNow, formatted, timePc>>

vars == <<csvVars, findVars, cacheVars, timeVars>>

\* ------------------------------------------------------------------
\* Bounds
\* ------------------------------------------------------------------
MaxLen == 5
MaxRows == 2
MaxCols == 2
MaxTicks == 3
MaxDays == 22

\* ------------------------------------------------------------------
\* Characters
\* ------------------------------------------------------------------
QUOTE == "\""
COMMA == ","
LF == "\n"
CR == "\r"
Undefined == "undefined"   \* text[i + 1] past the end of the string

Alphabet == {"a", COMMA, QUOTE, LF, CR}

SeqsUpTo(S, n) == UNION {[1..k -> S] : k \in 0..n}

Last(s) == s[Len(s)]

\* ------------------------------------------------------------------
\* parseCSV
\* ------------------------------------------------------------------
ScanState(ln, cl, cf, q, idx) ==
    [lines |-> ln, currentLine |-> cl, currentField |-> cf, inQuotes |-> q, i |-> idx]

ScanStart == ScanState(<<>>, <<>>, <<>>, FALSE, 1)

\* char === '"'
OnQuote(st, nextChar) ==
    IF st.inQuotes /\ nextChar = QUOTE
      THEN [st EXCEPT !.currentField = Append(st.currentField, QUOTE), !.i = st.i + 2]
      ELSE [st EXCEPT !.inQuotes = ~st.inQuotes, !.i = st.i + 1]

\* char === ',' && !inQuotes
OnCommaKeepsField(st) ==
    [st EXCEPT !.currentLine = Append(st.currentLine, st.currentField), !.i = st.i + 1]

OnComma(st) ==
    [st EXCEPT !.currentLine = Append(st.currentLine, st.currentField),
               !.currentField = <<>>,
               !.i = st.i + 1]

\* (char === '\n' || char === '\r') && !inQuotes
OnTerminatorAlwaysEmits(st, char, nextChar) ==
    LET skip == IF char = CR /\ nextChar = LF THEN 2 ELSE 1
    IN  [st EXCEPT !.lines = Append(st.lines, Append(st.currentLine, st.currentField)),
                   !.currentLine = <<>>,
                   !.currentField = <<>>,
                   !.i = st.i + skip]

OnTerminatorStalls(st, char, nextChar) ==
    LET skip == IF char = CR /\ nextChar = LF THEN 2 ELSE 1
    IN  IF st.currentField # <<>> \/ Len(st.currentLine) > 0
          THEN [st EXCEPT !.lines = Append(st.lines, Append(st.currentLine, st.currentField)),
                          !.currentLine = <<>>,
                          !.currentField = <<>>,
                          !.i = st.i + skip]
          ELSE st

OnTerminator(st, char, nextChar) ==
    LET skip == IF char = CR /\ nextChar = LF THEN 2 ELSE 1
    IN  IF st.currentField # <<>> \/ Len(st.currentLine) > 0
          THEN [st EXCEPT !.lines = Append(st.lines, Append(st.currentLine, st.currentField)),
                          !.currentLine = <<>>,
                          !.currentField = <<>>,
                          !.i = st.i + skip]
          ELSE [st EXCEPT !.i = st.i + skip]

\* else: any other character, and every comma or terminator inside quotes
OnOther(st, char) ==
    [st EXCEPT !.currentField = Append(st.currentField, char), !.i = st.i + 1]

\* One iteration of the for loop, i++ included.
ScanStepLfOnly(txt, st) ==
    LET char == txt[st.i]
        nextChar == IF st.i + 1 <= Len(txt) THEN txt[st.i + 1] ELSE Undefined
    IN  IF char = QUOTE THEN OnQuote(st, nextChar)
        ELSE IF char = COMMA /\ ~st.inQuotes THEN OnComma(st)
        ELSE IF char = LF /\ ~st.inQuotes THEN OnTerminator(st, char, nextChar)
        ELSE OnOther(st, char)

ScanStepQuoteBlind(txt, st) ==
    LET char == txt[st.i]
        nextChar == IF st.i + 1 <= Len(txt) THEN txt[st.i + 1] ELSE Undefined
    IN  IF char = QUOTE THEN OnQuote(st, nextChar)
        ELSE IF char = COMMA THEN OnComma(st)
        ELSE IF char = LF \/ char = CR THEN OnTerminator(st, char, nextChar)
        ELSE OnOther(st, char)

ScanStep(txt, st) ==
    LET char == txt[st.i]
        nextChar == IF st.i + 1 <= Len(txt) THEN txt[st.i + 1] ELSE Undefined
    IN  IF char = QUOTE THEN OnQuote(st, nextChar)
        ELSE IF char = COMMA /\ ~st.inQuotes THEN OnComma(st)
        ELSE IF (char = LF \/ char = CR) /\ ~st.inQuotes THEN OnTerminator(st, char, nextChar)
        ELSE OnOther(st, char)

\* After the loop: push last field and line if exists.
Flush(st) ==
    IF st.currentField # <<>> \/ Len(st.currentLine) > 0
      THEN Append(st.lines, Append(st.currentLine, st.currentField))
      ELSE st.lines

RECURSIVE ScanFrom(_, _)
ScanFrom(txt, st) ==
    IF st.i <= Len(txt) THEN ScanFrom(txt, ScanStep(txt, st)) ELSE st

parseCSV(txt) == Flush(ScanFrom(txt, ScanStart))

\* ------------------------------------------------------------------
\* serializeAsCsv: cells joined by commas, every row ended by a terminator
\* ------------------------------------------------------------------
RECURSIVE JoinCells(_)
JoinCells(row) ==
    IF Len(row) = 0 THEN <<>>
    ELSE IF Len(row) = 1 THEN row[1]
    ELSE row[1] \o <<COMMA>> \o JoinCells(Tail(row))

RECURSIVE serializeAsCsv(_, _)
serializeAsCsv(tbl, t) ==
    IF Len(tbl) = 0 THEN <<>>
    ELSE JoinCells(tbl[1]) \o t \o serializeAsCsv(Tail(tbl), t)

Terminators == {<<LF>>, <<CR, LF>>, <<CR>>}

\* ------------------------------------------------------------------
\* Inputs
\* ------------------------------------------------------------------
Texts(maxLen) == SeqsUpTo(Alphabet, maxLen)

\* the inputs quoted in the documentation of the tokenizer
ExampleTexts ==
    { <<"a", COMMA, QUOTE, "b", COMMA, "c", QUOTE, COMMA, "d", LF>>,
      <<"a", COMMA, "b", CR, LF, "c", COMMA, "d", CR, LF>>,
      <<"a", COMMA, "b", LF>>,
      <<QUOTE, "H", "e", " ", QUOTE, QUOTE, "h", "i", QUOTE, QUOTE, QUOTE, COMMA, "2", LF>> }

SimpleCells == {<<>>, <<"a">>, <<LF>>}
SimpleRows(maxCols) == UNION {[1..k -> SimpleCells] : k \in 0..maxCols}
SimpleTables(maxRows, maxCols) == SeqsUpTo(SimpleRows(maxCols), maxRows)

\* ------------------------------------------------------------------
\* findClinic
\* ------------------------------------------------------------------
Whitespace == {" ", "\t", LF, CR}

UpperCase == <<"A", "B", "C", "D", "E", "F", "G", "H", "I", "J", "K", "L", "M",
               "N", "O", "P", "Q", "R", "S", "T", "U", "V", "W", "X", "Y", "Z">>
LowerCase == <<"a", "b", "c", "d", "e", "f", "g", "h", "i", "j", "k", "l", "m",
               "n", "o", "p", "q", "r", "s", "t", "u", "v", "w", "x", "y", "z">>

\* String.prototype.trim
RECURSIVE trimStart(_)
trimStart(s) == IF s # <<>> /\ s[1] \in Whitespace THEN trimStart(Tail(s)) ELSE s

RECURSIVE trimEnd(_)
trimEnd(s) ==
    IF s # <<>> /\ s[Len(s)] \in Whitespace THEN trimEnd(SubSeq(s, 1, Len(s) - 1)) ELSE s

trim(s) == trimEnd(trimStart(s))

\* String.prototype.toLowerCase
toLowerCase(s) ==
    [k \in 1..Len(s) |->
        IF \E u \in 1..26 : UpperCase[u] = s[k]
          THEN LowerCase[CHOOSE u \in 1..26 : UpperCase[u] = s[k]]
          ELSE s[k]]

KeyColumnName == <<"c", "l", "i", "n", "i", "c", "i", "d">>

\* the value null, and a clinic object: its keys are the header cells
Null == [isNull |-> TRUE]

\* a call that ended with a thrown TypeError
Thrown == [threw |-> TRUE]

Object(f) == [isNull |-> FALSE, fields |-> f]

\* h && h.trim().toLowerCase() === 'clinicid'
IsKeyHeaderCaseSensitive(h) == h # <<>> /\ trim(h) = KeyColumnName

IsKeyHeader(h) == h # <<>> /\ toLowerCase(trim(h)) = KeyColumnName

\* headers.findIndex(...): the first matching index, 0 for the source's -1
RECURSIVE FindIndexFrom(_, _)
FindIndexFrom(headers, k) ==
    IF k > Len(headers) THEN 0
    ELSE IF IsKeyHeader(headers[k]) THEN k
    ELSE FindIndexFrom(headers, k + 1)

findIndex(headers) == FindIndexFrom(headers, 1)

\* row[clinicIdColIndex] && row[clinicIdColIndex].trim() === clinicId
RowMatches(row, col, id) ==
    /\ col <= Len(row)
    /\ row[col] # <<>>
    /\ trim(row[col]) = id

\* headers.forEach((header, index) => { clinic[header] = row[index] || ''; })
\* a header cell that occurs twice keeps the value of its last index
BuildClinicNoDefault(headers, row) ==
    [h \in {headers[k] : k \in 1..Len(headers)} |->
        LET last == CHOOSE k \in 1..Len(headers) :
                        /\ headers[k] = h
                        /\ \A m \in 1..Len(headers) : headers[m] = h => m <= k
        IN  IF last <= Len(row) THEN row[last] ELSE <<"undefined">>]

BuildClinic(headers, row) ==
    [h \in {headers[k] : k \in 1..Len(headers)} |->
        LET last == CHOOSE k \in 1..Len(headers) :
                        /\ headers[k] = h
                        /\ \A m \in 1..Len(headers) : headers[m] = h => m <= k
        IN  IF last <= Len(row) THEN row[last] ELSE <<>>]

\* for (let i = 1; i < rows.length; i++) { ... return clinic; } return null;
RECURSIVE ScanRowsKeepsLast(_, _, _, _)
ScanRowsKeepsLast(tbl, col, id, k) ==
    IF k > Len(tbl) THEN Null
    ELSE LET later == ScanRowsKeepsLast(tbl, col, id, k + 1)
         IN  IF ~later.isNull THEN later
             ELSE IF RowMatches(tbl[k], col, id) THEN Object(BuildClinic(tbl[1], tbl[k]))
             ELSE Null

RECURSIVE ScanRows(_, _, _, _)
ScanRows(tbl, col, id, k) ==
    IF k > Len(tbl) THEN Null
    ELSE IF RowMatches(tbl[k], col, id) THEN Object(BuildClinic(tbl[1], tbl[k]))
    ELSE ScanRows(tbl, col, id, k + 1)

findClinicThrows(tbl, id) ==
    IF Len(tbl) < 2 THEN Null
    ELSE LET clinicIdColIndex == findIndex(tbl[1])
         IN  IF clinicIdColIndex = 0 THEN Thrown
             ELSE ScanRows(tbl, clinicIdColIndex, id, 2)

findClinic(tbl, id) ==
    IF Len(tbl) < 2 THEN Null
    ELSE LET clinicIdColIndex == findIndex(tbl[1])
         IN  IF clinicIdColIndex = 0 THEN Null
             ELSE ScanRows(tbl, clinicIdColIndex, id, 2)

\* ---- inputs ----
HeaderRows ==
    { <<KeyColumnName, <<"X">> >>,
      << <<"X">>, <<" ", "C", "l", "i", "n", "i", "c", "I", "D", " ">> >>,
      << <<"X">>, <<"Y">> >>,
      << <<"X">>, KeyColumnName, <<"X">> >>,
      << <<>>, KeyColumnName, <<"C", "L", "I", "N", "I", "C", "I", "D">> >>,
      << <<"c", "l", "i", "n", "i", "c">>, <<"X">> >>,
      << KeyColumnName >> }

DataCells == {<<>>, <<" ", "a", " ">>}
DataRows(maxCols) == UNION {[1..k -> DataCells] : k \in 1..maxCols}
FindTables(maxRows, maxCols) ==
    {<<>>} \cup {<<h>> \o d : h \in HeaderRows, d \in SeqsUpTo(DataRows(maxCols), maxRows)}
ClinicIds == {<<"a">>, <<"A">>}

FindIdle ==
    /\ rows = <<>>
    /\ clinicId = <<"a">>
    /\ clinic = Null
    /\ findPc = "call"

\* ------------------------------------------------------------------
\* getData and init
\* ------------------------------------------------------------------
\* CONFIG.cacheDuration = 5 * 60 * 1000
cacheDuration == 5 * 60 * 1000

Widgets == {"w1", "w2"}

\* The item under CONFIG.cacheKey.  NoItem: getItem returns null.  A string
\* is held by what it parses to: the text JSON.stringify made of an
\* envelope, the empty string, or text that is not JSON.
NoItem == [kind |-> "none"]
EmptyString == [kind |-> "empty"]
NotJson == [kind |-> "garbage"]

JSONstringify(envelope) ==
    [kind |-> "envelope", data |-> envelope.data, timestamp |-> envelope.timestamp]

\* the text {"data":null,"timestamp":t}: JSON of the envelope's shape whose
\* data is no table
NullDataText(t) == [kind |-> "nullData", timestamp |-> t]

\* JSON.parse: the value, or a SyntaxError.  A value without the field data
\* is one whose data is null.
JSONparse(string) ==
    IF string.kind = "envelope"
      THEN [threw |-> FALSE, value |-> [data |-> string.data, timestamp |-> string.timestamp]]
    ELSE IF string.kind = "nullData"
      THEN [threw |-> FALSE, value |-> [dataIsNull |-> TRUE, timestamp |-> string.timestamp]]
    ELSE [threw |-> TRUE]

\* if (cached): null and the empty string are falsy
Truthy(item) == item.kind \notin {"none", "empty"}

Error(message) == [error |-> message]

IsError(r) == "error" \in DOMAIN r

Pending == [pending |-> TRUE]

\* ---- inputs ----
StartTime == 1000000

TickSteps == {1, cacheDuration - 1}

\* response texts the feed can return
Bodies ==
    { KeyColumnName \o <<COMMA, "X", LF, "a", COMMA, "1", LF>>,
      <<"X", COMMA, "Y", CR, LF, "a", COMMA, QUOTE, "1", COMMA, "2", QUOTE>>,
      <<>> }

\* what an earlier page load left in the store
OldTable == << <<KeyColumnName, <<"X">> >>, << <<"a">>, <<"0">> >> >>

InitStamps ==
    { StartTime - cacheDuration - 1, StartTime - cacheDuration,
      StartTime - cacheDuration + 1, StartTime }

InitItems ==
    {NoItem, EmptyString, NotJson, NullDataText(StartTime)}
        \cup {JSONstringify([data |-> OldTable, timestamp |-> t]) : t \in InitStamps}

CacheIdle ==
    /\ now = StartTime
    /\ ticks = 0
    /\ store = NoItem
    /\ storeMode = "ok"
    /\ pc = [w \in Widgets |-> "load"]
    /\ body = [w \in Widgets |-> <<>>]
    /\ result = [w \in Widgets |-> Pending]
    /\ fetches = [w \in Widgets |-> 0]
    /\ signals = [w \in Widgets |-> <<>>]

\* ------------------------------------------------------------------
\* timeAgo
\* ------------------------------------------------------------------
\* 1000 * 60 * 60 * 24
DayMs == 1000 * 60 * 60 * 24

\* The argument of timeAgo, held by what it is: undefined (the record has
\* no AVA_TIMESTAMP field), the empty string, blanks only, text that is no
\* date, or the text of a date with its instant in milliseconds.
NoTimestamp == [kind |-> "undefined"]
EmptyText == [kind |-> "empty"]
BlankText == [kind |-> "blank"]
NotADate == [kind |-> "garbage"]

DateText(ms) == [kind |-> "date", instant |-> ms]

\* new Date(timestampString).getTime(): the instant, or NaN
NaN == [nan |-> TRUE]

DateParse(string) ==
    IF string.kind = "date" THEN [nan |-> FALSE, ms |-> string.instant] ELSE NaN

Label(l) == [label |-> l]

DaysAgo(n) == [label |-> "days ago", n |-> n]

\* from daysSince to the returned label
LabelForSevenDays(daysSince) ==
    IF daysSince = 0 THEN Label("today")
    ELSE IF daysSince = 1 THEN Label("yesterday")
    ELSE IF daysSince <= 7 THEN DaysAgo(daysSince)
    ELSE LET weeksSince == daysSince \div 7
         IN  IF weeksSince = 1 THEN Label("1 week ago")
             ELSE IF weeksSince = 2 THEN Label("2 weeks ago")
             ELSE IF weeksSince >= 3 THEN Label("3+ weeks ago")
             ELSE DaysAgo(daysSince)

LabelFor(daysSince) ==
    IF daysSince = 0 THEN Label("today")
    ELSE IF daysSince = 1 THEN Label("yesterday")
    ELSE IF daysSince < 7 THEN DaysAgo(daysSince)
    ELSE LET weeksSince == daysSince \div 7
         IN  IF weeksSince = 1 THEN Label("1 week ago")
             ELSE IF weeksSince = 2 THEN Label("2 weeks ago")
             ELSE IF weeksSince >= 3 THEN Label("3+ weeks ago")
             ELSE DaysAgo(daysSince)

\* without the isNaN check every comparison with NaN is false and the
\* last return is reached
timeAgoUnchecked(string, t1, t2) ==
    IF string.kind \in {"undefined", "empty", "blank"} THEN Null
    ELSE LET lastUpdated == DateParse(string)
         IN  IF lastUpdated.nan THEN Label("NaN days ago")
             ELSE IF lastUpdated.ms > t1 THEN Label("recently")
             ELSE LabelFor((t2 - lastUpdated.ms) \div DayMs)

\* t1: the clock at new Date(), t2: the clock at Date.now()
timeAgo(string, t1, t2) ==
    IF string.kind \in {"undefined", "empty", "blank"} THEN Null
    ELSE LET lastUpdated == DateParse(string)
         IN  IF lastUpdated.nan THEN Null
             ELSE IF lastUpdated.ms > t1 THEN Label("recently")
             ELSE LabelFor((t2 - lastUpdated.ms) \div DayMs)

\* ---- inputs ----
TimestampStrings(t, maxDays) ==
    {NoTimestamp, EmptyText, BlankText, NotADate}
        \cup {DateText(t + 1), DateText(t + 1000 * 60 * 60)}
        \cup {DateText(t - (d * DayMs + off)) : d \in 0..maxDays, off \in {0, 1, DayMs - 1}}

TimeIdle ==
    /\ timestampString = NoTimestamp
    /\ readNow = 0
    /\ diffNow = 0
    /\ formatted = Null
    /\ timePc = "call"

OthersIdleForCSV == FindIdle /\ CacheIdle /\ TimeIdle

\* ------------------------------------------------------------------
\* The tokenizer as a state machine
\* ------------------------------------------------------------------
Cur == ScanState(lines, currentLine, currentField, inQuotes, i)

InitScanWith(txt) ==
    /\ text = txt
    /\ i = 1
    /\ lines = <<>>
    /\ currentLine = <<>>
    /\ currentField = <<>>
    /\ inQuotes = FALSE
    /\ scanPc = "scan"

InitCSV ==
    /\ \E txt \in Texts(MaxLen) \cup ExampleTexts : InitScanWith(txt)
    /\ table = <<>>
    /\ term = <<LF>>
    /\ OthersIdleForCSV

InitRoundTrip ==
    /\ table \in SimpleTables(MaxRows, MaxCols)
    /\ term \in Terminators
    /\ InitScanWith(serializeAsCsv(table, term))
    /\ OthersIdleForCSV

\* for (let i = 0; i < text.length; i++) { ... }
Scan ==
    /\ scanPc = "scan"
    /\ i <= Len(text)
    /\ LET st == ScanStep(text, Cur)
       IN  /\ i' = st.i
           /\ lines' = st.lines
           /\ currentLine' = st.currentLine
           /\ currentField' = st.currentField
           /\ inQuotes' = st.inQuotes
    /\ UNCHANGED <<text, scanPc, table, term, findVars, cacheVars, timeVars>>

\* loop exit, final flush, return lines
Return ==
    /\ scanPc = "scan"
    /\ i > Len(text)
    /\ lines' = Flush(Cur)
    /\ scanPc' = "done"
    /\ UNCHANGED <<text, i, currentLine, currentField, inQuotes, table, term, findVars, cacheVars, timeVars>>

NextCSV == Scan \/ Return

SpecCSV == InitCSV /\ [][NextCSV]_vars
FairSpecCSV == InitCSV /\ [][NextCSV]_vars /\ WF_vars(NextCSV)
SpecRoundTrip == InitRoundTrip /\ [][NextCSV]_vars

\* ------------------------------------------------------------------
\* findClinic as a one-step machine
\* ------------------------------------------------------------------
CsvIdle ==
    /\ InitScanWith(<<>>)
    /\ table = <<>>
    /\ term = <<LF>>

InitFind ==
    /\ rows \in FindTables(MaxRows, MaxCols)
    /\ clinicId \in ClinicIds
    /\ clinic = Null
    /\ findPc = "call"
    /\ CsvIdle
    /\ CacheIdle
    /\ TimeIdle

\* const clinic = findClinic(rows, clinicId);
FindClinic ==
    /\ findPc = "call"
    /\ clinic' = findClinic(rows, clinicId)
    /\ findPc' = "done"
    /\ UNCHANGED <<rows, clinicId, csvVars, cacheVars, timeVars>>

NextFind == FindClinic

SpecFind == InitFind /\ [][NextFind]_vars

\* ------------------------------------------------------------------
\* Properties of findClinic
\* ------------------------------------------------------------------
\* data rows whose key cell, trimmed, equals the requested key value
MatchingRows(tbl, id) ==
    {k \in 2..Len(tbl) : findIndex(tbl[1]) # 0 /\ RowMatches(tbl[k], findIndex(tbl[1]), id)}

\* C10: when several data rows have a key cell that, trimmed, equals the
\* requested key, findClinic returns the record of the matching row with
\* the smallest index, never a later one.
C10_FirstMatchWins ==
    (findPc = "done" /\ Len(rows) >= 2 /\ findIndex(rows[1]) # 0) =>
        \A m \in MatchingRows(rows, clinicId) :
            (\A j \in MatchingRows(rows, clinicId) : m <= j) =>
                clinic = Object(BuildClinic(rows[1], rows[m]))

C10_Witness ==
    /\ findPc = "done"
    /\ Len(rows) = 3
    /\ MatchingRows(rows, clinicId) = {2, 3}
    /\ BuildClinic(rows[1], rows[2]) # BuildClinic(rows[1], rows[3])
    /\ clinic = Object(BuildClinic(rows[1], rows[2]))

\* header cells that name the key column, written out
KeyHeaders ==
    { KeyColumnName,
      <<" ", "C", "l", "i", "n", "i", "c", "I", "D", " ">>,
      <<"C", "L", "I", "N", "I", "C", "I", "D">> }

KeyColumns(headers) == {k \in 1..Len(headers) : headers[k] \in KeyHeaders}

FirstKeyColumn(headers) ==
    CHOOSE k \in KeyColumns(headers) : \A m \in KeyColumns(headers) : k <= m

\* C11: the key column is the header cell that, trimmed and lower-cased,
\* equals 'clinicid' ('ClinicID' with blanks around it matches); the key
\* value is compared case-sensitively with the trimmed stored cell: a
\* stored ' a ' matches a requested 'a' and does not match a requested 'A'.
C11_HeaderFoldedValueExact ==
    findPc = "done" =>
        /\ ~clinic.isNull <=>
              /\ Len(rows) >= 2
              /\ KeyColumns(rows[1]) # {}
              /\ clinicId = <<"a">>
              /\ \E r \in 2..Len(rows) :
                    /\ FirstKeyColumn(rows[1]) <= Len(rows[r])
                    /\ rows[r][FirstKeyColumn(rows[1])] = <<" ", "a", " ">>
        /\ clinicId = <<"A">> => clinic.isNull

C11_Witness ==
    /\ findPc = "done"
    /\ Len(rows) = 2
    /\ rows[1] = << <<"X">>, <<" ", "C", "l", "i", "n", "i", "c", "I", "D", " ">> >>
    /\ rows[2] = << <<>>, <<" ", "a", " ">> >>
    /\ clinicId = <<"a">>
    /\ clinic = Object(BuildClinic(rows[1], rows[2]))

\* the matched row: the first data row whose key cell, trimmed, is the key
MatchedRow == rows[CHOOSE m \in MatchingRows(rows, clinicId) :
                       \A j \in MatchingRows(rows, clinicId) : m <= j]

CellOrEmpty(row, k) == IF k <= Len(row) THEN row[k] ELSE <<>>

\* C14 as stated: the record's field names are exactly the header cells,
\* and for every header index the field holds the matched row's cell at
\* that index, or the empty string when the row is shorter.
C14_EveryHeaderIndex ==
    (findPc = "done" /\ ~clinic.isNull) =>
        /\ DOMAIN clinic.fields = {rows[1][k] : k \in 1..Len(rows[1])}
        /\ \A k \in 1..Len(rows[1]) :
              clinic.fields[rows[1][k]] = CellOrEmpty(MatchedRow, k)

\* C14 amended: the record's field names are exactly the header cells; for
\* every header index that is the last one carrying its header cell (every
\* index when the header cells are distinct) the field holds the matched
\* row's cell at that index, or the empty string when the row is shorter;
\* cells at indices beyond the header are in no field.
C14_RecordZipsHeader ==
    (findPc = "done" /\ ~clinic.isNull) =>
        /\ DOMAIN clinic.fields = {rows[1][k] : k \in 1..Len(rows[1])}
        /\ \A k \in 1..Len(rows[1]) :
              (\A m \in 1..Len(rows[1]) : rows[1][m] = rows[1][k] => m <= k) =>
                  clinic.fields[rows[1][k]] = CellOrEmpty(MatchedRow, k)
        /\ \A h \in DOMAIN clinic.fields :
              \E k \in 1..Len(rows[1]) :
                  rows[1][k] = h /\ clinic.fields[h] = CellOrEmpty(MatchedRow, k)

C14_Witness ==
    /\ findPc = "done"
    /\ ~clinic.isNull
    /\ Len(rows[1]) = 3
    /\ Len(MatchedRow) = 2
    /\ clinic.fields[rows[1][3]] = <<>>
    /\ clinic.fields[rows[1][2]] = <<" ", "a", " ">>

\* ------------------------------------------------------------------
\* timeAgo as a one-step machine
\* ------------------------------------------------------------------
InitTime ==
    /\ readNow = StartTime
    /\ timestampString \in TimestampStrings(readNow, MaxDays)
    /\ diffNow = readNow
    /\ formatted = Null
    /\ timePc = "call"
    /\ CsvIdle
    /\ FindIdle
    /\ CacheIdle

\* const formattedTime = timeAgo(avaTimestamp); the clock may advance
\* between new Date() and Date.now()
TimeAgo ==
    /\ timePc = "call"
    /\ \E t2 \in {readNow, readNow + 1} :
          /\ diffNow' = t2
          /\ formatted' = timeAgo(timestampString, readNow, t2)
    /\ timePc' = "done"
    /\ UNCHANGED <<timestampString, readNow, csvVars, findVars, cacheVars>>

NextTime == TimeAgo

SpecTime == InitTime /\ [][NextTime]_vars

\* ------------------------------------------------------------------
\* Properties of timeAgo
\* ------------------------------------------------------------------
\* whole days between the instant and the clock at Date.now()
DaysElapsed == (diffNow - timestampString.instant) \div DayMs

\* C12: for a parseable timestamp the label depends on d, the whole days
\* elapsed, only: an instant after now gives 'recently', d = 0 'today',
\* d = 1 'yesterday', 2..6 '<d> days ago', 7..13 '1 week ago', 14..20
\* '2 weeks ago', 21 and more '3+ weeks ago'; nothing else is returned.
C12_LabelByDays ==
    (timePc = "done" /\ timestampString.kind = "date") =>
        IF timestampString.instant > readNow THEN formatted = Label("recently")
        ELSE /\ DaysElapsed = 0 => formatted = Label("today")
             /\ DaysElapsed = 1 => formatted = Label("yesterday")
             /\ DaysElapsed \in 2..6 => formatted = DaysAgo(DaysElapsed)
             /\ DaysElapsed \in 7..13 => formatted = Label("1 week ago")
             /\ DaysElapsed \in 14..20 => formatted = Label("2 weeks ago")
             /\ DaysElapsed >= 21 => formatted = Label("3+ weeks ago")
             /\ DaysElapsed >= 0

C12_Witness ==
    /\ timePc = "done"
    /\ timestampString.kind = "date"
    /\ timestampString.instant = readNow - 13 * DayMs
    /\ DaysElapsed = 13
    /\ formatted = Label("1 week ago")

FixedLabels ==
    {Label("recently"), Label("today"), Label("yesterday"), Label("1 week ago"),
     Label("2 weeks ago"), Label("3+ weeks ago")} \cup {DaysAgo(n) : n \in 2..6}

\* C17: timeAgo returns null for empty or whitespace-only input and for
\* text that is no timestamp, and whatever the input the result is null or
\* one of the fixed labels.
C17_NullOrLabel ==
    timePc = "done" =>
        /\ timestampString.kind \in {"undefined", "empty", "blank", "garbage"} =>
              formatted = Null
        /\ formatted = Null \/ formatted \in FixedLabels

C17_Witness ==
    /\ timePc = "done"
    /\ timestampString = NotADate
    /\ formatted = Null

\* ------------------------------------------------------------------
\* Properties of the tokenizer
\* ------------------------------------------------------------------
HasChar(cell, S) == \E k \in 1..Len(cell) : cell[k] \in S

IsTable(t) ==
    /\ DOMAIN t = 1..Len(t)
    /\ \A r \in 1..Len(t) :
         /\ DOMAIN t[r] = 1..Len(t[r])
         /\ \A c \in 1..Len(t[r]) : DOMAIN t[r][c] = 1..Len(t[r][c])

\* Tables the serialization can represent: a row without cells or made of a
\* single empty cell serializes to a blank line, a terminator inside a cell
\* to a row boundary.
Representable(tbl) ==
    \A r \in 1..Len(tbl) :
        /\ tbl[r] # <<>>
        /\ tbl[r] # << <<>> >>
        /\ \A c \in 1..Len(tbl[r]) : ~HasChar(tbl[r][c], {LF, CR})

\* C5 as stated: for every table of non-quoted, comma-free string cells
\* (empty cells and a row made of a single empty cell included), tokenizing
\* its serialization returns exactly the table.
C5_RoundTripAllTables ==
    scanPc = "done" => lines = table

\* C5 amended: for every table whose cells contain no double quote, comma or
\* line terminator and that has no row without cells or made of a single
\* empty cell, tokenizing its serialization returns exactly the table.
C5_RoundTrip ==
    (scanPc = "done" /\ Representable(table)) => lines = table

C5_Witness ==
    /\ scanPc = "done"
    /\ Len(table) = 2
    /\ Representable(table)
    /\ \E r \in 1..Len(table) : \E c \in 1..Len(table[r]) : table[r][c] = <<>>
    /\ term = <<CR, LF>>
    /\ lines = table

QuoteFree(txt) == \A k \in 1..Len(txt) : txt[k] # QUOTE

CrLfAt(txt) == {k \in 1..(Len(txt) - 1) : txt[k] = CR /\ txt[k + 1] = LF}

\* txt with the two characters at k, k + 1 replaced by t
ReplacePair(txt, k, t) == SubSeq(txt, 1, k - 1) \o t \o SubSeq(txt, k + 2, Len(txt))

\* C6: on input without double quotes, replacing an occurrence of \r\n by \n
\* or by a bare \r yields the same table, and a \r\n pair is exactly one row
\* boundary: the table is the rows before the pair followed by the rows
\* after it, with no empty field or empty row for the skipped \n.
C6_TerminatorsEquivalent ==
    (scanPc = "done" /\ QuoteFree(text)) =>
        \A k \in CrLfAt(text) :
            /\ parseCSV(ReplacePair(text, k, <<LF>>)) = lines
            /\ parseCSV(ReplacePair(text, k, <<CR>>)) = lines
            /\ lines = parseCSV(SubSeq(text, 1, k - 1)) \o parseCSV(SubSeq(text, k + 2, Len(text)))

C6_Witness ==
    /\ scanPc = "done"
    /\ text = <<"a", COMMA, "b", CR, LF, "c", COMMA, "d", CR, LF>>
    /\ lines = << << <<"a">>, <<"b">> >>, << <<"c">>, <<"d">> >> >>

\* C7: a row is emitted only when a field was pushed or the pending field is
\* non-empty: for input that does not end inside an open quote, appending a
\* terminator does not change the table; the empty input gives the empty
\* table; a final row without a terminator is captured; no emitted row is
\* empty or a single empty cell.
C7_NoPhantomRow ==
    /\ (scanPc = "done" /\ ~inQuotes) =>
          \A t \in Terminators : parseCSV(text \o t) = lines
    /\ (scanPc = "done" /\ text = <<>>) => lines = <<>>
    /\ (scanPc = "done" /\ (currentField # <<>> \/ currentLine # <<>>)) =>
          (lines # <<>> /\ Last(lines) = Append(currentLine, currentField))
    /\ \A r \in 1..Len(lines) : lines[r] # <<>> /\ lines[r] # << <<>> >>

C7_Witness ==
    /\ scanPc = "done"
    /\ text = <<"a", COMMA, "a">>
    /\ lines = << << <<"a">>, <<"a">> >> >>
    /\ parseCSV(text \o <<LF>>) = lines

NextCharAt(txt, k) == IF k + 1 <= Len(txt) THEN txt[k + 1] ELSE Undefined

\* what one loop iteration must do with a double-quote-related character
C8_Step ==
    (scanPc = "scan" /\ i <= Len(text)) =>
        /\ (inQuotes /\ text[i] \in {COMMA, LF, CR}) =>
              /\ currentField' = Append(currentField, text[i])
              /\ lines' = lines /\ currentLine' = currentLine
              /\ inQuotes' /\ i' = i + 1
        /\ (inQuotes /\ text[i] = QUOTE /\ NextCharAt(text, i) = QUOTE) =>
              /\ currentField' = Append(currentField, QUOTE)
              /\ lines' = lines /\ currentLine' = currentLine
              /\ inQuotes' /\ i' = i + 2
        /\ (text[i] = QUOTE /\ ~(inQuotes /\ NextCharAt(text, i) = QUOTE)) =>
              /\ currentField' = currentField
              /\ lines' = lines /\ currentLine' = currentLine
              /\ inQuotes' = ~inQuotes

NoAdjacentQuotes(txt) == \A k \in 1..(Len(txt) - 1) : ~(txt[k] = QUOTE /\ txt[k + 1] = QUOTE)

C8_Results ==
    scanPc = "done" =>
        /\ text = <<"a", COMMA, QUOTE, "b", COMMA, "c", QUOTE, COMMA, "d", LF>> =>
              lines = << << <<"a">>, <<"b", COMMA, "c">>, <<"d">> >> >>
        /\ text = <<QUOTE, "a", LF, "a", QUOTE>> => lines = << << <<"a", LF, "a">> >> >>
        /\ text = <<QUOTE, "a", QUOTE, QUOTE, "a", QUOTE>> =>
              lines = << << <<"a", QUOTE, "a">> >> >>
        /\ NoAdjacentQuotes(text) =>
              \A r \in 1..Len(lines) : \A c \in 1..Len(lines[r]) : ~HasChar(lines[r][c], {QUOTE})

\* C8: inside an open quote commas and terminators are field data and make
\* no field or row boundary; a doubled quote inside a quoted field adds one
\* literal quote and leaves the quote open; a quote delimiter is never
\* copied into the cell.
C8_QuotedData == [][C8_Step]_vars /\ [](C8_Results)

C8_Witness ==
    /\ scanPc = "done"
    /\ text = <<"a", COMMA, QUOTE, "b", COMMA, "c", QUOTE, COMMA, "d", LF>>
    /\ lines = << << <<"a">>, <<"b", COMMA, "c">>, <<"d">> >> >>

\* every step either consumes at least one new character or returns
C9_Step ==
    \/ /\ scanPc = "scan" /\ scanPc' = "scan"
       /\ i <= Len(text) /\ i' > i /\ i' <= Len(text) + 1
    \/ /\ scanPc = "scan" /\ scanPc' = "done"
       /\ i = Len(text) + 1 /\ i' = i

C9_Result ==
    scanPc = "done" =>
        /\ IsTable(lines)
        /\ (inQuotes /\ currentField # <<>>) =>
              (lines # <<>> /\ Last(Last(lines)) = currentField)

\* C9: parseCSV is total: on every input, unbalanced or stray quotes
\* included, it returns a table after consuming each character at most once,
\* and what was read inside a quote left open at the end of the input is
\* the last field of the last row.
C9_Total == <>(scanPc = "done") /\ [][C9_Step]_vars /\ [](C9_Result)

C9_Witness ==
    /\ scanPc = "done"
    /\ inQuotes
    /\ currentField # <<>>
    /\ Len(lines) = 2
    /\ Last(Last(lines)) = currentField
    /\ HasChar(currentField, {LF, CR, COMMA})

\* ------------------------------------------------------------------
\* getData and init as a state machine
\* ------------------------------------------------------------------
Init ==
    /\ now = StartTime
    /\ ticks = 0
    /\ store \in InitItems
    /\ storeMode \in {"ok", "full", "denied"}
    /\ pc = [w \in Widgets |-> "load"]
    /\ body = [w \in Widgets |-> <<>>]
    /\ result = [w \in Widgets |-> Pending]
    /\ fetches = [w \in Widgets |-> 0]
    /\ signals = [w \in Widgets |-> <<>>]
    /\ clinicId \in ClinicIds
    /\ rows = <<>>
    /\ clinic = Null
    /\ findPc = "call"
    /\ CsvIdle
    /\ TimeIdle

\* The executor of getData's promise, up to resolve, reject or fetch().
\* [to: the flow's next position, result: the settled value if any]
ExecutorInclusive(item, mode, t) ==
    IF mode = "denied" THEN [to |-> "rejected", result |-> Error("SecurityError")]
    ELSE IF Truthy(item)
      THEN LET parsed == JSONparse(item)
           IN  IF parsed.threw THEN [to |-> "rejected", result |-> Error("SyntaxError")]
               ELSE IF t - parsed.value.timestamp <= cacheDuration
                 THEN [to |-> "resolved", result |-> parsed.value]
                 ELSE [to |-> "fetching", result |-> Pending]
      ELSE [to |-> "fetching", result |-> Pending]

Executor(item, mode, t) ==
    IF mode = "denied" THEN [to |-> "rejected", result |-> Error("SecurityError")]
    ELSE IF Truthy(item)
      THEN LET parsed == JSONparse(item)
           IN  IF parsed.threw THEN [to |-> "rejected", result |-> Error("SyntaxError")]
               ELSE IF t - parsed.value.timestamp < cacheDuration
                 THEN [to |-> "resolved", result |-> parsed.value]
                 ELSE [to |-> "fetching", result |-> Pending]
      ELSE [to |-> "fetching", result |-> Pending]

\* init(): showLoading(), then getData() runs its executor synchronously
Load(w) ==
    /\ pc[w] = "load"
    /\ LET e == Executor(store, storeMode, now)
       IN  /\ pc' = [pc EXCEPT ![w] = e.to]
           /\ result' = [result EXCEPT ![w] = e.result]
           /\ fetches' = [fetches EXCEPT ![w] = IF e.to = "fetching" THEN @ + 1 ELSE @]
    /\ signals' = [signals EXCEPT ![w] = Append(@, [type |-> "loading"])]
    /\ UNCHANGED <<now, ticks, store, storeMode, body, csvVars, findVars, timeVars>>

\* fetch() settles with a response that is ok
ResponseOk(w) ==
    /\ pc[w] = "fetching"
    /\ pc' = [pc EXCEPT ![w] = "reading"]
    /\ UNCHANGED <<now, ticks, store, storeMode, body, result, fetches, signals, csvVars, findVars, timeVars>>

\* fetch() rejects, or !response.ok throws, or response.text() rejects:
\* .catch(reject)
FetchFailsRetries(w, message) ==
    /\ pc[w] \in {"fetching", "reading"}
    /\ IF fetches[w] < 2
         THEN /\ pc' = [pc EXCEPT ![w] = "fetching"]
              /\ fetches' = [fetches EXCEPT ![w] = @ + 1]
              /\ UNCHANGED result
         ELSE /\ pc' = [pc EXCEPT ![w] = "rejected"]
              /\ result' = [result EXCEPT ![w] = Error(message)]
              /\ UNCHANGED fetches
    /\ UNCHANGED <<now, ticks, store, storeMode, body, signals, csvVars, findVars, timeVars>>

FetchFails(w, message) ==
    /\ pc[w] \in {"fetching", "reading"}
    /\ pc' = [pc EXCEPT ![w] = "rejected"]
    /\ result' = [result EXCEPT ![w] = Error(message)]
    /\ UNCHANGED <<now, ticks, store, storeMode, body, fetches, signals, csvVars, findVars, timeVars>>

TransportFails(w) == pc[w] = "fetching" /\ FetchFails(w, "TypeError")

ResponseNotOk(w) == pc[w] = "fetching" /\ FetchFails(w, "Failed to fetch data")

TextFails(w) == pc[w] = "reading" /\ FetchFails(w, "TypeError")

\* response.text() settles with the text
TextArrives(w) ==
    /\ pc[w] = "reading"
    /\ \E csvText \in Bodies : body' = [body EXCEPT ![w] = csvText]
    /\ pc' = [pc EXCEPT ![w] = "text"]
    /\ UNCHANGED <<now, ticks, store, storeMode, result, fetches, signals, csvVars, findVars, timeVars>>

\* .then(csvText => { parseCSV, Date.now(), try setItem catch warn, resolve })
CacheRowsUnguarded(w) ==
    /\ pc[w] = "text"
    /\ LET fresh == [data |-> parseCSV(body[w]), timestamp |-> now]
       IN  IF storeMode = "ok"
             THEN /\ store' = JSONstringify(fresh)
                  /\ pc' = [pc EXCEPT ![w] = "resolved"]
                  /\ result' = [result EXCEPT ![w] = fresh]
             ELSE /\ store' = store
                  /\ pc' = [pc EXCEPT ![w] = "rejected"]
                  /\ result' = [result EXCEPT ![w] = Error("QuotaExceededError")]
    /\ UNCHANGED <<now, ticks, storeMode, body, fetches, signals, csvVars, findVars, timeVars>>

CacheRowsMixes(w) ==
    /\ pc[w] = "text"
    /\ LET fresh == [data |-> parseCSV(body[w]), timestamp |-> now]
       IN  /\ store' = IF storeMode # "ok" THEN store
                       ELSE IF store.kind = "envelope"
                         THEN JSONstringify([data |-> fresh.data, timestamp |-> store.timestamp])
                         ELSE JSONstringify(fresh)
           /\ pc' = [pc EXCEPT ![w] = "resolved"]
           /\ result' = [result EXCEPT ![w] = fresh]
    /\ UNCHANGED <<now, ticks, storeMode, body, fetches, signals, csvVars, findVars, timeVars>>

CacheRowsStampsExpiry(w) ==
    /\ pc[w] = "text"
    /\ LET fresh == [data |-> parseCSV(body[w]), timestamp |-> now + cacheDuration]
       IN  /\ store' = IF storeMode = "ok" THEN JSONstringify(fresh) ELSE store
           /\ pc' = [pc EXCEPT ![w] = "resolved"]
           /\ result' = [result EXCEPT ![w] = fresh]
    /\ UNCHANGED <<now, ticks, storeMode, body, fetches, signals, csvVars, findVars, timeVars>>

CacheRows(w) ==
    /\ pc[w] = "text"
    /\ LET fresh == [data |-> parseCSV(body[w]), timestamp |-> now]
       IN  /\ store' = IF storeMode = "ok" THEN JSONstringify(fresh) ELSE store
           /\ pc' = [pc EXCEPT ![w] = "resolved"]
           /\ result' = [result EXCEPT ![w] = fresh]
    /\ UNCHANGED <<now, ticks, storeMode, body, fetches, signals, csvVars, findVars, timeVars>>

\* const rows = result.data || result; findClinic(rows, clinicId): with
\* data null, rows is the envelope object and headers.findIndex throws
ResolveClinic(r, id) ==
    IF "data" \in DOMAIN r THEN findClinic(r.data, id) ELSE Thrown

\* .then(result => { findClinic(rows, clinicId); render(clinic, timestamp) })
\* a throw in the callback rejects the chain and runs the .catch
Render(w) ==
    /\ pc[w] = "resolved"
    /\ LET timestamp == IF result[w].timestamp = 0 THEN now ELSE result[w].timestamp
           found == ResolveClinic(result[w], clinicId)
       IN  IF found = Thrown
             THEN /\ pc' = [pc EXCEPT ![w] = "threw"]
                  /\ UNCHANGED signals
             ELSE /\ pc' = [pc EXCEPT ![w] = "rendered"]
                  /\ signals' = [signals EXCEPT ![w] =
                         Append(@, [type |-> "render", clinic |-> found,
                                    timestamp |-> timestamp])]
    /\ UNCHANGED <<now, ticks, store, storeMode, body, result, fetches, csvVars, findVars, timeVars>>

\* .catch(err => { console.error; showError() })
ShowError(w) ==
    /\ pc[w] \in {"rejected", "threw"}
    /\ signals' = [signals EXCEPT ![w] = Append(@, [type |-> "error"])]
    /\ pc' = [pc EXCEPT ![w] = "failed"]
    /\ UNCHANGED <<now, ticks, store, storeMode, body, result, fetches, csvVars, findVars, timeVars>>

\* the clock advances
Tick ==
    /\ ticks < MaxTicks
    /\ \E d \in TickSteps : now' = now + d
    /\ ticks' = ticks + 1
    /\ UNCHANGED <<store, storeMode, pc, body, result, fetches, signals, csvVars, findVars, timeVars>>

\* the browser's storage fills up, is freed, or is switched off or on
StorageChanges ==
    /\ \E m \in {"ok", "full", "denied"} : m # storeMode /\ storeMode' = m
    /\ UNCHANGED <<now, ticks, store, pc, body, result, fetches, signals, csvVars, findVars, timeVars>>

Next ==
    \/ \E w \in Widgets : Load(w)
    \/ \E w \in Widgets : ResponseOk(w)
    \/ \E w \in Widgets : TransportFails(w)
    \/ \E w \in Widgets : ResponseNotOk(w)
    \/ \E w \in Widgets : TextFails(w)
    \/ \E w \in Widgets : TextArrives(w)
    \/ \E w \in Widgets : CacheRows(w)
    \/ \E w \in Widgets : Render(w)
    \/ \E w \in Widgets : ShowError(w)
    \/ Tick
    \/ StorageChanges

Spec == Init /\ [][Next]_vars

\* the same flows on a store that starts empty
InitEmpty == Init /\ store = NoItem

SpecEmpty == InitEmpty /\ [][Next]_vars

\* ------------------------------------------------------------------
\* Properties of getData
\* ------------------------------------------------------------------
\* the store holds an envelope with now - timestamp < TTL
HoldsFresh ==
    store.kind \in {"envelope", "nullData"} /\ now - store.timestamp < cacheDuration

\* flow w runs the executor of getData in this step
Calls(w) == pc[w] = "load" /\ pc'[w] # "load"

\* C1: with a readable store, getData() fetches if and only if the store
\* holds no envelope with now - timestamp < TTL; with such an envelope it
\* resolves with exactly its data and timestamp, fetches nothing and leaves
\* the store alone; with an older envelope or none it fetches.
C1_FetchIffNotFresh ==
    [][\A w \in Widgets : (Calls(w) /\ storeMode # "denied") =>
          /\ (fetches'[w] = fetches[w] + 1) <=> ~HoldsFresh
          /\ HoldsFresh =>
                /\ pc'[w] = "resolved"
                /\ result'[w] = JSONparse(store).value
                /\ result'[w].timestamp = store.timestamp
                /\ store' = store]_vars

\* C2: a malformed blob in the store, or a failing store read, is a cache
\* miss: getData() goes on to fetch and the failure is not a rejection.
C2_BadReadIsMiss ==
    [][\A w \in Widgets :
          (Calls(w) /\ (store = NotJson \/ storeMode = "denied")) =>
              (pc'[w] = "fetching" /\ fetches'[w] = fetches[w] + 1)]_vars

\* C3: when the text of the response arrived and the store rejects the
\* write, getData() resolves with the tokenized text and the new timestamp,
\* and the store keeps its content.
C3_WriteFailureSwallowed ==
    [][\A w \in Widgets :
          (pc[w] = "text" /\ pc'[w] # "text" /\ storeMode # "ok") =>
              /\ pc'[w] = "resolved"
              /\ result'[w] = [data |-> parseCSV(body[w]), timestamp |-> now]
              /\ store' = store]_vars

C3_Witness ==
    \E w \in Widgets :
        /\ pc[w] = "resolved"
        /\ fetches[w] = 1
        /\ storeMode = "full"
        /\ store.kind = "envelope"
        /\ store.data = OldTable
        /\ result[w].data = parseCSV(body[w])
        /\ result[w].data # OldTable
        /\ result[w].timestamp > store.timestamp

\* C4: a fetch that ends in a non-success response or a transport failure
\* rejects getData() with an error, is not retried (a call issues at most
\* one fetch), and leaves the persisted envelope unchanged.
C4_FetchFailureRejects ==
    /\ [][\A w \in Widgets :
            (pc[w] \in {"fetching", "reading"} /\ pc'[w] \notin {"fetching", "reading", "text"}) =>
                /\ pc'[w] = "rejected"
                /\ IsError(result'[w])
                /\ fetches'[w] = fetches[w]
                /\ store' = store]_vars
    /\ [](\A w \in Widgets : fetches[w] <= 1)

C4_Witness ==
    \E w \in Widgets :
        /\ pc[w] = "failed"
        /\ fetches[w] = 1
        /\ result[w] = Error("Failed to fetch data")
        /\ store.kind = "envelope"
        /\ store.data = OldTable

\* the table has fewer than 2 rows, or no header cell names the key column,
\* or no data row's key cell, trimmed, is the key
NotFound(tbl, id) ==
    \/ Len(tbl) < 2
    \/ KeyColumns(tbl[1]) = {}
    \/ \A r \in 2..Len(tbl) :
          ~(/\ FirstKeyColumn(tbl[1]) <= Len(tbl[r])
            /\ trim(tbl[r][FirstKeyColumn(tbl[1])]) = id)

\* C13: in each of the three not-found conditions findClinic returns null,
\* not an exception, and the flow ends with the render signal carrying no
\* record, not with the error signal.
C13_AbsenceIsRendered ==
    \A w \in Widgets :
        (/\ pc[w] \in {"rendered", "threw", "failed"}
         /\ "data" \in DOMAIN result[w]
         /\ NotFound(result[w].data, clinicId)) =>
            /\ pc[w] = "rendered"
            /\ findClinic(result[w].data, clinicId) = Null
            /\ Len(signals[w]) = 2
            /\ signals[w][2].type = "render"
            /\ signals[w][2].clinic = Null

C13_Witness ==
    \E w \in Widgets :
        /\ pc[w] = "rendered"
        /\ fetches[w] = 1
        /\ Len(result[w].data) = 2
        /\ KeyColumns(result[w].data[1]) = {}
        /\ signals[w][2].type = "render"
        /\ signals[w][2].clinic = Null

\* the getData() of flow w rejected because its fetch failed
FetchFailed(w) ==
    /\ IsError(result[w])
    /\ fetches[w] = 1
    /\ result[w] \in {Error("TypeError"), Error("Failed to fetch data")}

\* the .then callback of init threw on a table that is not well-formed
OrchestrationThrew(w) == "dataIsNull" \in DOMAIN result[w]

\* C15: every run emits the loading signal first and then exactly one
\* terminal signal, render when getData() resolved and error when it
\* rejected; the error signal is emitted only after a failed fetch or an
\* unexpected error in the orchestration, never after a getData() that
\* resolved with a well-formed table.
C15_SignalsOfARun ==
    \A w \in Widgets :
        /\ Len(signals[w]) <= 2
        /\ Len(signals[w]) >= 1 => signals[w][1].type = "loading"
        /\ Len(signals[w]) = 2 => signals[w][2].type \in {"render", "error"}
        /\ pc[w] \in {"rendered", "failed"} <=> Len(signals[w]) = 2
        /\ pc[w] = "rendered" => (signals[w][2].type = "render" /\ "data" \in DOMAIN result[w])
        /\ pc[w] = "failed" =>
              /\ signals[w][2].type = "error"
              /\ FetchFailed(w) \/ OrchestrationThrew(w)

\* flow w stored one complete envelope: the data and timestamp it resolved with
WroteIt(w) ==
    /\ fetches[w] = 1
    /\ "data" \in DOMAIN result[w]
    /\ store = JSONstringify(result[w])

\* the store is readable and holds nothing or an expired envelope
ReadableMiss ==
    /\ storeMode # "denied"
    /\ \/ ~Truthy(store)
       \/ store.kind \in {"envelope", "nullData"} /\ now - store.timestamp >= cacheDuration

\* C16: calls that overlap on an expired or empty cache each perform their
\* own fetch and their own store write; the store holds what it held before
\* the calls or one complete envelope {data, timestamp} that one of the
\* calls wrote, never the data of one call with the timestamp of another.
C16_LastWriteWins ==
    /\ [](store \in InitItems \/ \E w \in Widgets : WroteIt(w))
    /\ [][\A w \in Widgets : (Calls(w) /\ ReadableMiss) =>
             (pc'[w] = "fetching" /\ fetches'[w] = fetches[w] + 1)]_vars
    /\ [][store' # store =>
             \E w \in Widgets :
                 /\ pc[w] = "text" /\ pc'[w] = "resolved"
                 /\ store' = JSONstringify(result'[w])]_vars

C16_Witness ==
    \E w, v \in Widgets :
        /\ w # v
        /\ pc[v] = "text" /\ fetches[v] = 1
        /\ pc[w] = "resolved" /\ WroteIt(w)
        /\ now - store.timestamp < cacheDuration
        /\ parseCSV(body[v]) # result[w].data

\* C18: with a clock that does not go back, the timestamps of the envelopes
\* written one after the other do not decrease, and each written timestamp
\* is the clock at the step that tokenized the response and wrote it.
C18_WrittenStampsFollowClock ==
    [][store' # store =>
          /\ store'.kind = "envelope"
          /\ store'.timestamp = now
          /\ now' = now
          /\ \E w \in Widgets :
                /\ pc[w] = "text" /\ pc'[w] = "resolved"
                /\ store'.data = parseCSV(body[w])
                /\ result'[w].timestamp = store'.timestamp
          /\ store.kind \in {"envelope", "nullData"} => store.timestamp <= store'.timestamp]_vars

C18_Witness ==
    \E w, v \in Widgets :
        /\ w # v
        /\ WroteIt(w)
        /\ fetches[v] = 1 /\ "data" \in DOMAIN result[v]
        /\ StartTime < result[v].timestamp
        /\ result[v].timestamp < result[w].timestamp
        /\ store.timestamp = result[w].timestamp

\* C19: on a store that starts empty, a table that getData() returns
\* without fetching is the tokenized body of a fetch of another call whose
\* response was tokenized less than TTL before this call.
C19_CachedIsRecentFetch ==
    [][\A w \in Widgets : (Calls(w) /\ pc'[w] = "resolved") =>
          /\ fetches'[w] = 0
          /\ \E v \in Widgets \ {w} :
                /\ fetches[v] = 1
                /\ "data" \in DOMAIN result[v]
                /\ result[v].data = parseCSV(body[v])
                /\ result'[w] = result[v]
                /\ result[v].timestamp <= now
                /\ now - result[v].timestamp < cacheDuration]_vars

C19_Witness ==
    \E w, v \in Widgets :
        /\ w # v
        /\ pc[w] = "resolved" /\ fetches[w] = 0
        /\ fetches[v] = 1
        /\ result[w] = result[v]
        /\ now - result[w].timestamp = cacheDuration - 1

====
